---- MODULE Spec2Model ----
(***************************************************************************)
(* Model of openai_orch's Orchestrator (src/src/lib.rs): the registry of   *)
(* response receivers behind a tokio Mutex, the tokio Semaphore that gates *)
(* the spawned tasks, the capacity-1 mpsc channel of every request, and    *)
(* the add_request / get_response calls with the task add_request spawns.  *)
(*                                                                         *)
(* Every await point of the code is a step boundary: a call or a task is   *)
(* a small process whose position is kept in addpc / taskpc / getpc.       *)
(***************************************************************************)
EXTENDS Integers, Sequences, FiniteSets, TLC

\* ---------------------------------------------------------------- bounds
NumRequests == 3        \* add_request calls (and so spawned tasks) in a run
NumGets == 2            \* get_response calls in a run
MaxConcurrent == 1      \* max_concurrent_requests ranges over 0..MaxConcurrent
NumClones == 1          \* Orchestrator::clone() calls in a run
MaxMaxRetries == 33     \* max_retries ranges over 0..MaxMaxRetries
MaxInitialDelay == 2    \* delay and initial_delay range over 1..MaxInitialDelay seconds
MaxExtraCalls == 2      \* failed_request calls made on an exhausted policy
MaxIsoRetries == 1      \* max_retries of the policy shared by concurrent tasks

Reqs == 1..NumRequests
Gets == 1..NumGets
\* The values thread_rand().next_u64() is drawn from.  The code only compares
\* identifiers for equality, so a run with NumRequests draws needs no more
\* than NumRequests values.
Ids == 1..NumRequests
\* The Orchestrator handles of a run: 0 is the one Orchestrator::new returned,
\* the others are its clones.
Orchs == 0..NumClones
\* The response kinds of the crate: ChatSisoResponse and EmbeddingResponse.
Kinds == {"Chat", "Embed"}

\* An absent request / channel / identifier.
NoReq == 0
\* The registry mutex when nobody holds it.
Unlocked == <<"none", 0>>
\* A result that has not been produced yet.
NoResult == <<"none", 0>>
\* Error::msg("No response receiver found")
NotFound == <<"NoResponseReceiverFound", 0>>
\* Error::msg("No response found")
ChannelClosed == <<"NoResponseFound", 0>>
\* get_response panicked: "Failed to downcast response".
DowncastPanic == <<"FailedToDowncast", 0>>

\* What `request.send(..).await.map(Box::new)` of request r evaluates to:
\* the success value or the error of that request, tagged with the request.
Outcome(r, kind) == <<kind, r>>
SendKinds == {"Ok", "Err"}

VARIABLES
  max_concurrent_requests, \* policies.concurrency_policy.max_concurrent_requests
  permits,     \* semaphore: permits available
  waiters,     \* semaphore: FIFO queue of tasks waiting in acquire()
  lock,        \* requests mutex: Unlocked, <<"add", r>> or <<"get", g>>
  requests,    \* registry HashMap<u64, ResponseReceiver>: id -> request whose rx is stored, NoReq if absent
  addpc,       \* position of the add_request call r
  reqId,       \* the id drawn by add_request call r
  taskpc,      \* position of the task spawned by add_request call r
  res,         \* the task's `res` (outcome of request.send), NoResult before
  chan,        \* buffer of the mpsc::channel(1) of request r
  rx,          \* where the Receiver of request r is
  txAlive,     \* whether the Sender of request r has not been dropped
  txres,       \* what tx.send(res).await returned in task r: "none", "Ok", "Err"
  getpc,       \* position of the get_response call g
  getId,       \* request_id.id of get_response call g
  getHandle,   \* the add_request call whose RequestID (or a clone) call g was given
  getRx,       \* the request whose Receiver call g removed from the registry
  getRes,      \* what get_response call g returned
  reqKind,     \* the response kind R of the request that add_request call r submits
  policies,    \* self.policies.retry_policy of the Orchestrator
  loop,        \* task r's own copy of the retry policy and what its send did so far
  rt,          \* a RetryPolicy value on which failed_request is called directly
  orchs,       \* what the Arcs of Orchestrator handle o point to: "none" before the handle exists
  addVia,      \* the Orchestrator handle add_request call r was made on
  getVia       \* the Orchestrator handle get_response call g was made on

vars == <<max_concurrent_requests, permits, waiters, lock, requests, addpc,
          reqId, taskpc, res, chan, rx, txAlive, txres, getpc, getId,
          getHandle, getRx, getRes, reqKind, policies, loop, rt, orchs,
          addVia, getVia>>

\* What no step of add_request, of a task or of get_response changes.
envVars == <<reqKind, policies, rt, orchs>>
semVars == <<permits, waiters>>
addVars == <<addpc, reqId, addVia>>
getVars == <<getpc, getId, getHandle, getRx, getRes, getVia>>

\* ------------------------------------------------------------ policies.rs

\* RetryPolicy::default(): exponential_backoff(5, 1 s, 10 s); delays in seconds.
DefaultMaxRetries == 5
DefaultInitialDelay == 1
DefaultMaxDelay == 10

\* The three variants of enum RetryPolicy as records; a field a variant does
\* not have is 0.
Immediate(cur, max) ==
  [variant |-> "Immediate", current_retries |-> cur, max_retries |-> max,
   delay |-> 0, initial_delay |-> 0, max_delay |-> 0]
ConstantDelay(cur, max, d) ==
  [variant |-> "ConstantDelay", current_retries |-> cur, max_retries |-> max,
   delay |-> d, initial_delay |-> 0, max_delay |-> 0]
ExponentialBackoff(cur, max, initial, cap) ==
  [variant |-> "ExponentialBackoff", current_retries |-> cur,
   max_retries |-> max, delay |-> 0, initial_delay |-> initial,
   max_delay |-> cap]
DefaultRetryPolicy ==
  ExponentialBackoff(0, DefaultMaxRetries, DefaultInitialDelay, DefaultMaxDelay)
\* No RetryPolicy value (a task that does not exist yet, no call made).
NoPolicy ==
  [variant |-> "none", current_retries |-> 0, max_retries |-> 0, delay |-> 0,
   initial_delay |-> 0, max_delay |-> 0]

\* The send loop of a task before the task exists.
NoLoop ==
  [policy |-> NoPolicy, attempts |-> 0, calls |-> 0, retried |-> 0,
   cause |-> "none", slept |-> <<>>, after |-> "none"]
\* No direct failed_request call under way.
NoRt == [policy |-> NoPolicy, before |-> NoPolicy, start |-> NoPolicy,
         ret |-> "none", slept |-> <<>>, calls |-> 0, retried |-> 0]

\* A u32 is kept as two halves <<high, low>> of HalfBits bits each, so that
\* every value up to 2^32 - 1 is exact.
HalfBits == 16
HalfWord == 2 ^ HalfBits

\* 2u32.pow(n) (policies.rs 150): the value modulo 2^32 and whether the true
\* power does not fit a u32.
Pow2U32(n) ==
  IF n < HalfBits THEN [v |-> <<0, 2 ^ n>>, overflow |-> FALSE]
  ELSE IF n < 2 * HalfBits
    THEN [v |-> <<2 ^ (n - HalfBits), 0>>, overflow |-> FALSE]
  ELSE [v |-> <<0, 0>>, overflow |-> TRUE]

\* Duration * u32 (policies.rs 150) in whole seconds, as <<seconds div 2^16,
\* seconds mod 2^16>>; the seconds of a Duration are a u64, which the delays
\* of the model times a u32 never exceed.
DurationMul(secs, v) ==
  LET lo == secs * v[2]
  IN <<secs * v[1] + (lo \div HalfWord), lo % HalfWord>>

\* delay > max_delay (policies.rs 151), max_delay below 2^16 seconds.
DurationGreater(d, secs) == d[1] > 0 \/ d[2] > secs

\* exponential_backoff (policies.rs 145-156).  When 2u32.pow overflows the
\* build decides: with overflow checks (debug) the call panics, without
\* (release) the power wraps.
exponential_backoff(current_retries, initial_delay, max_delay) ==
  LET p == Pow2U32(current_retries)
      delay == DurationMul(initial_delay, p.v)
      capped == IF DurationGreater(delay, max_delay) THEN max_delay ELSE delay[2]
  IN IF p.overflow
       THEN {[panic |-> TRUE, delay |-> 0], [panic |-> FALSE, delay |-> capped]}
       ELSE {[panic |-> FALSE, delay |-> capped]}

\* The policy with its counter incremented (*current_retries += 1).
Incremented(p) == [p EXCEPT !.current_retries = p.current_retries + 1]

\* RetryPolicy::failed_request (policies.rs 55-98): what a call on policy p
\* can do: the policy afterwards, what it returned ("true", "false", or
\* "panic" when it did not return) and the delays it slept.
failed_request(p) ==
  IF p.variant = "Immediate" THEN
    IF p.current_retries < p.max_retries
      THEN {[policy |-> Incremented(p), ret |-> "true", slept |-> <<>>]}
      ELSE {[policy |-> p, ret |-> "false", slept |-> <<>>]}
  ELSE IF p.variant = "ConstantDelay" THEN
    IF p.current_retries < p.max_retries
      THEN {[policy |-> Incremented(p), ret |-> "true", slept |-> <<p.delay>>]}
      ELSE {[policy |-> p, ret |-> "false", slept |-> <<>>]}
  ELSE IF p.variant = "ExponentialBackoff" THEN
    IF p.current_retries < p.max_retries
      THEN {IF o.panic
              THEN [policy |-> p, ret |-> "panic", slept |-> <<>>]
              ELSE [policy |-> Incremented(p), ret |-> "true",
                    slept |-> <<o.delay>>] :
            o \in exponential_backoff(p.current_retries, p.initial_delay,
                                      p.max_delay)}
      ELSE {[policy |-> p, ret |-> "false", slept |-> <<>>]}
  ELSE {}

\* The RetryPolicy values failed_request is tried on: every variant, every
\* max_retries up to the bound, a counter below, at and above max_retries.
RetryPolicies ==
  LET Counters == {cm \in (0..(MaxMaxRetries + 1)) \X (0..MaxMaxRetries) :
                     cm[1] <= cm[2] + 1}
      Delays == 1..MaxInitialDelay
      Caps == {DefaultInitialDelay, DefaultMaxDelay}
  IN {Immediate(cm[1], cm[2]) : cm \in Counters}
     \cup {ConstantDelay(cm[1], cm[2], d) : cm \in Counters, d \in Delays}
     \cup {ExponentialBackoff(cm[1], cm[2], d, c) :
             cm \in Counters, d \in Delays, c \in Caps}

\* ------------------------------------------------------ Orchestrator::new

\* Orchestrator::new: empty registry, Semaphore::new(max_concurrent_requests);
\* no call made, no task spawned, one handle whose Arcs point to both.
OrchNew(n) ==
  /\ max_concurrent_requests = n
  /\ permits = max_concurrent_requests
  /\ waiters = <<>>
  /\ lock = Unlocked
  /\ requests = [i \in Ids |-> NoReq]
  /\ addpc = [r \in Reqs |-> "idle"]
  /\ reqId = [r \in Reqs |-> 0]
  /\ taskpc = [r \in Reqs |-> "none"]
  /\ res = [r \in Reqs |-> NoResult]
  /\ chan = [r \in Reqs |-> <<>>]
  /\ rx = [r \in Reqs |-> "none"]
  /\ txAlive = [r \in Reqs |-> FALSE]
  /\ txres = [r \in Reqs |-> "none"]
  /\ getpc = [g \in Gets |-> "idle"]
  /\ getId = [g \in Gets |-> 0]
  /\ getHandle = [g \in Gets |-> NoReq]
  /\ getRx = [g \in Gets |-> NoReq]
  /\ getRes = [g \in Gets |-> NoResult]
  /\ loop = [r \in Reqs |-> NoLoop]
  /\ orchs = [o \in Orchs |-> IF o = 0 THEN "root" ELSE "none"]
  /\ addVia = [r \in Reqs |-> 0]
  /\ getVia = [g \in Gets |-> 0]

\* Any limit up to the bound, 0 included: ConcurrencyPolicy::new(n) takes any
\* usize.
OrchInit == \E n \in 0..MaxConcurrent : OrchNew(n)

\* An application that submits chat requests only, with Policies::default()
\* but for the concurrency limit, as examples/basic/main.rs does.
Init ==
  /\ OrchInit
  /\ reqKind = [r \in Reqs |-> "Chat"]
  /\ policies = DefaultRetryPolicy
  /\ rt = NoRt

\* ------------------------------------------------------------ add_request

\* The identifiers a new draw has to range over: every value drawn before
\* (a collision) and one value never drawn before (all unused values behave
\* alike, the smallest stands for them).
DrawnIds == {reqId[q] : q \in {p \in Reqs : addpc[p] # "idle"}}
FreshId == CHOOSE i \in Ids : i \notin DrawnIds /\ \A j \in Ids \ DrawnIds : i <= j
DrawChoices == IF DrawnIds = Ids THEN Ids ELSE DrawnIds \cup {FreshId}

\* lib.rs 126-128: draw the id, create the channel (both local to the call),
\* then self.requests.lock().await succeeds.
AddLock(r, id) ==
  /\ addpc[r] = "idle"
  /\ \A q \in Reqs : q < r => addpc[q] # "idle"
  /\ id \in DrawChoices
  /\ lock = Unlocked
  /\ lock' = <<"add", r>>
  /\ addpc' = [addpc EXCEPT ![r] = "insert"]
  /\ reqId' = [reqId EXCEPT ![r] = id]
  /\ rx' = [rx EXCEPT ![r] = "local"]
  /\ txAlive' = [txAlive EXCEPT ![r] = TRUE]
  /\ \E o \in Orchs : orchs[o] = "root" /\ addVia' = [addVia EXCEPT ![r] = o]
  /\ UNCHANGED <<max_concurrent_requests, envVars, loop, semVars, requests,
                 taskpc, res, chan, txres, getVars>>

\* AddInsert that forgets the registration: the lock is released and the call
\* goes on to spawn, but the Receiver never reaches the registry.
AddInsertForgotten(r) ==
  /\ addpc[r] = "insert"
  /\ lock = <<"add", r>>
  /\ lock' = Unlocked
  /\ addpc' = [addpc EXCEPT ![r] = "spawn"]
  /\ UNCHANGED <<max_concurrent_requests, envVars, loop, semVars, requests, reqId, addVia, taskpc,
                 res, chan, rx, txAlive, txres, getVars>>

\* lib.rs 128: .insert(id, rx); the guard is a temporary, dropped at the end
\* of the statement.  HashMap::insert replaces an entry already stored under
\* id, and the Receiver it returns is dropped with whatever it buffered.
AddInsert(r) ==
  LET id == reqId[r]
      old == requests[id]
  IN /\ addpc[r] = "insert"
     /\ lock = <<"add", r>>
     /\ requests' = [requests EXCEPT ![id] = r]
     /\ rx' = [q \in Reqs |-> IF q = r THEN "registry"
                              ELSE IF q = old THEN "dropped" ELSE rx[q]]
     /\ chan' = [q \in Reqs |-> IF q = old THEN <<>> ELSE chan[q]]
     /\ lock' = Unlocked
     /\ addpc' = [addpc EXCEPT ![r] = "spawn"]
     /\ UNCHANGED <<max_concurrent_requests, envVars, loop, semVars, reqId, addVia, taskpc, res,
                    txAlive, txres, getVars>>

\* lib.rs 131, siso.rs 64: `let policies = self.policies.clone()` is moved
\* into the task, whose send takes policies.retry_policy as its own
\* `retry_policy`; no attempt made yet.
ClonedPolicies == [NoLoop EXCEPT !.policy = policies]

\* AddSpawn that acquires the permit in the caller, before spawning.
AddSpawnAwaitsPermit(r) ==
  /\ addpc[r] = "spawn"
  /\ permits > 0
  /\ permits' = permits - 1
  /\ taskpc' = [taskpc EXCEPT ![r] = "running"]
  /\ addpc' = [addpc EXCEPT ![r] = "returned"]
  /\ loop' = [loop EXCEPT ![r] = ClonedPolicies]
  /\ UNCHANGED <<max_concurrent_requests, envVars, waiters, lock, requests, reqId, addVia,
                 res, chan, rx, txAlive, txres, getVars>>

\* lib.rs 130-150: clone semaphore/policies/keys, tokio::spawn the task,
\* return RequestID { id }.
AddSpawn(r) ==
  /\ addpc[r] = "spawn"
  /\ taskpc' = [taskpc EXCEPT ![r] = "spawned"]
  /\ addpc' = [addpc EXCEPT ![r] = "returned"]
  /\ loop' = [loop EXCEPT ![r] = ClonedPolicies]
  /\ UNCHANGED <<max_concurrent_requests, envVars, semVars, lock, requests, reqId, addVia,
                 res, chan, rx, txAlive, txres, getVars>>

\* ------------------------------------------------- the task of add_request

\* tokio's Semaphore hands a released permit to the longest-waiting acquire()
\* and only counts it as available when nobody waits.
PermitsAfterRelease == IF waiters = <<>> THEN permits + 1 ELSE permits
WaitersAfterRelease == IF waiters = <<>> THEN waiters ELSE Tail(waiters)
\* TaskpcAfterRelease with a lost wake-up: the queued task is not told that
\* the permit is now its own.
TaskpcAfterReleaseNoWake(r, newpc) == [taskpc EXCEPT ![r] = newpc]

\* taskpc after task r dropped its permit and moved to newpc: the head of the
\* queue, if any, now owns the permit and goes on to request.send.
TaskpcAfterRelease(r, newpc) ==
  [q \in Reqs |-> IF q = r THEN newpc
                  ELSE IF waiters # <<>> /\ q = Head(waiters) THEN "running"
                  ELSE taskpc[q]]

\* TaskAcquire with the gate off by one: a permit is taken when none is left.
TaskAcquireOffByOne(r) ==
  /\ taskpc[r] = "spawned"
  /\ IF permits >= 0
       THEN /\ permits' = permits - 1
            /\ waiters' = waiters
            /\ taskpc' = [taskpc EXCEPT ![r] = "running"]
       ELSE /\ permits' = permits
            /\ waiters' = Append(waiters, r)
            /\ taskpc' = [taskpc EXCEPT ![r] = "waiting"]
  /\ UNCHANGED <<max_concurrent_requests, envVars, loop, lock, requests, addVars, res, chan,
                 rx, txAlive, txres, getVars>>

\* lib.rs 135-138: semaphore.acquire().await, first poll of the task: take a
\* permit if one is available, else queue up.
TaskAcquire(r) ==
  /\ taskpc[r] = "spawned"
  /\ IF permits > 0
       THEN /\ permits' = permits - 1
            /\ waiters' = waiters
            /\ taskpc' = [taskpc EXCEPT ![r] = "running"]
       ELSE /\ permits' = permits
            /\ waiters' = Append(waiters, r)
            /\ taskpc' = [taskpc EXCEPT ![r] = "waiting"]
  /\ UNCHANGED <<max_concurrent_requests, envVars, loop, lock, requests, addVars, res, chan,
                 rx, txAlive, txres, getVars>>

\* TaskSendReturns that gives the permit back as soon as send has returned.
TaskSendReturnsReleases(r, kind) ==
  /\ taskpc[r] = "running"
  /\ res' = [res EXCEPT ![r] = Outcome(r, kind)]
  /\ taskpc' = TaskpcAfterRelease(r, "sending")
  /\ permits' = PermitsAfterRelease
  /\ waiters' = WaitersAfterRelease
  /\ UNCHANGED <<max_concurrent_requests, envVars, loop, lock, requests, addVars,
                 chan, rx, txAlive, txres, getVars>>

\* lib.rs 140-143: request.send(policies, keys, id).await returns Ok or Err.
TaskSendReturns(r, kind) ==
  /\ taskpc[r] = "running"
  /\ res' = [res EXCEPT ![r] = Outcome(r, kind)]
  /\ taskpc' = [taskpc EXCEPT ![r] = "sending"]
  /\ UNCHANGED <<max_concurrent_requests, envVars, loop, semVars, lock, requests, addVars,
                 chan, rx, txAlive, txres, getVars>>

\* TaskSendPanics that loses the permit: the unwinding does not release it.
TaskSendPanicsLeaksPermit(r) ==
  /\ taskpc[r] = "running"
  /\ taskpc' = [taskpc EXCEPT ![r] = "panicked"]
  /\ txAlive' = [txAlive EXCEPT ![r] = FALSE]
  /\ UNCHANGED <<max_concurrent_requests, envVars, loop, semVars, lock, requests, addVars,
                 res, chan, rx, txres, getVars>>

\* lib.rs 140-142: request.send panics (siso.rs 119 indexes choices[0]); the
\* unwinding task drops _permit and tx, nothing is sent.
TaskSendPanics(r) ==
  /\ taskpc[r] = "running"
  /\ taskpc' = TaskpcAfterRelease(r, "panicked")
  /\ permits' = PermitsAfterRelease
  /\ waiters' = WaitersAfterRelease
  /\ txAlive' = [txAlive EXCEPT ![r] = FALSE]
  /\ UNCHANGED <<max_concurrent_requests, envVars, loop, lock, requests, addVars, res, chan,
                 rx, txres, getVars>>

\* TaskTxSend over a rendezvous: the value is kept only when a get_response
\* is already waiting on the Receiver, and dropped otherwise.
TaskTxSendRendezvous(r) ==
  /\ taskpc[r] = "sending"
  /\ IF rx[r] # "getter"
       THEN /\ chan' = chan
            /\ txres' = [txres EXCEPT ![r] = "Err"]
       ELSE /\ chan' = [chan EXCEPT ![r] = <<res[r]>>]
            /\ txres' = [txres EXCEPT ![r] = "Ok"]
  /\ taskpc' = [taskpc EXCEPT ![r] = "sent"]
  /\ UNCHANGED <<max_concurrent_requests, envVars, loop, semVars, lock, requests, addVars,
                 res, rx, txAlive, getVars>>

\* TaskTxSend that waits for a consumer: the send completes only once a
\* get_response holds the Receiver.
TaskTxSendAwaitsConsumer(r) ==
  /\ taskpc[r] = "sending"
  /\ rx[r] = "getter"
  /\ chan' = [chan EXCEPT ![r] = <<res[r]>>]
  /\ txres' = [txres EXCEPT ![r] = "Ok"]
  /\ taskpc' = [taskpc EXCEPT ![r] = "sent"]
  /\ UNCHANGED <<max_concurrent_requests, envVars, loop, semVars, lock, requests, addVars,
                 res, rx, txAlive, getVars>>

\* lib.rs 144: let _ = tx.send(res).await.  The channel has one slot and the
\* task sends once, so the slot is free: the value is buffered unless the
\* Receiver is gone, in which case send returns Err and the value is dropped.
TaskTxSend(r) ==
  /\ taskpc[r] = "sending"
  /\ IF rx[r] = "dropped"
       THEN /\ chan' = chan
            /\ txres' = [txres EXCEPT ![r] = "Err"]
       ELSE /\ chan' = [chan EXCEPT ![r] = <<res[r]>>]
            /\ txres' = [txres EXCEPT ![r] = "Ok"]
  /\ taskpc' = [taskpc EXCEPT ![r] = "sent"]
  /\ UNCHANGED <<max_concurrent_requests, envVars, loop, semVars, lock, requests, addVars,
                 res, rx, txAlive, getVars>>

\* TaskExit that keeps the permit (a permit that is forgotten, not dropped).
TaskExitKeepsPermit(r) ==
  /\ taskpc[r] = "sent"
  /\ taskpc' = [taskpc EXCEPT ![r] = "done"]
  /\ txAlive' = [txAlive EXCEPT ![r] = FALSE]
  /\ UNCHANGED <<max_concurrent_requests, envVars, loop, semVars, lock, requests, addVars,
                 res, chan, rx, txres, getVars>>

\* lib.rs 145: end of the async block: _permit and tx are dropped.
TaskExit(r) ==
  /\ taskpc[r] = "sent"
  /\ taskpc' = TaskpcAfterRelease(r, "done")
  /\ permits' = PermitsAfterRelease
  /\ waiters' = WaitersAfterRelease
  /\ txAlive' = [txAlive EXCEPT ![r] = FALSE]
  /\ UNCHANGED <<max_concurrent_requests, envVars, loop, lock, requests, addVars, res, chan,
                 rx, txres, getVars>>

\* ----------------------------------------------------------- get_response

\* lib.rs 160-167: a call with the RequestID that add_request call h returned
\* (or a clone of it); self.requests.lock().await succeeds.
GetLock(g, h) ==
  /\ getpc[g] = "idle"
  /\ \A k \in Gets : k < g => getpc[k] # "idle"
  /\ addpc[h] = "returned"
  /\ lock = Unlocked
  /\ lock' = <<"get", g>>
  /\ getpc' = [getpc EXCEPT ![g] = "remove"]
  /\ getId' = [getId EXCEPT ![g] = reqId[h]]
  /\ getHandle' = [getHandle EXCEPT ![g] = h]
  /\ \E o \in Orchs : orchs[o] = "root" /\ getVia' = [getVia EXCEPT ![g] = o]
  /\ UNCHANGED <<max_concurrent_requests, envVars, loop, semVars, requests, addVars, taskpc,
                 res, chan, rx, txAlive, txres, getRx, getRes>>

\* RegistryAfterRemove with a lookup (HashMap::get) in place of the removal.
RegistryAfterLookup(id) == requests

\* The registry after get_response took the entry of id out of it.
RegistryAfterRemove(id) == [requests EXCEPT ![id] = NoReq]

\* GetRemove that keeps the guard in a variable: the registry stays locked
\* while the call goes on to wait on the channel.
GetRemoveKeepsLock(g) ==
  LET id == getId[g]
      entry == requests[id]
  IN /\ getpc[g] = "remove"
     /\ lock = <<"get", g>>
     /\ IF entry = NoReq
          THEN /\ getRes' = [getRes EXCEPT ![g] = NotFound]
               /\ getpc' = [getpc EXCEPT ![g] = "done"]
               /\ lock' = Unlocked
               /\ UNCHANGED <<requests, rx, getRx>>
          ELSE /\ requests' = RegistryAfterRemove(id)
               /\ rx' = [rx EXCEPT ![entry] = "getter"]
               /\ getRx' = [getRx EXCEPT ![g] = entry]
               /\ getpc' = [getpc EXCEPT ![g] = "recv"]
               /\ lock' = lock
               /\ UNCHANGED getRes
     /\ UNCHANGED <<max_concurrent_requests, envVars, loop, semVars, addVars, taskpc, res,
                    chan, txAlive, txres, getId, getHandle, getVia>>

\* lib.rs 168-169: .remove(&request_id.id).ok_or_else(..)?; the guard is
\* dropped at the end of the statement.
GetRemove(g) ==
  LET id == getId[g]
      entry == requests[id]
  IN /\ getpc[g] = "remove"
     /\ lock = <<"get", g>>
     /\ lock' = Unlocked
     /\ IF entry = NoReq
          THEN /\ getRes' = [getRes EXCEPT ![g] = NotFound]
               /\ getpc' = [getpc EXCEPT ![g] = "done"]
               /\ UNCHANGED <<requests, rx, getRx>>
          ELSE /\ requests' = RegistryAfterRemove(id)
               /\ rx' = [rx EXCEPT ![entry] = "getter"]
               /\ getRx' = [getRx EXCEPT ![g] = entry]
               /\ getpc' = [getpc EXCEPT ![g] = "recv"]
               /\ UNCHANGED getRes
     /\ UNCHANGED <<max_concurrent_requests, envVars, loop, semVars, addVars, taskpc, res,
                    chan, txAlive, txres, getId, getHandle, getVia>>

\* GetRecv that only ever returns a value: a closed channel is not noticed.
GetRecvValueOnly(g) ==
  LET c == getRx[g]
  IN /\ getpc[g] = "recv"
     /\ chan[c] # <<>>
     /\ getRes' = [getRes EXCEPT ![g] = Head(chan[c])]
     /\ chan' = [chan EXCEPT ![c] = <<>>]
     /\ rx' = [rx EXCEPT ![c] = "dropped"]
     /\ getpc' = [getpc EXCEPT ![g] = "done"]
     /\ UNCHANGED <<max_concurrent_requests, envVars, loop, semVars, lock, requests, addVars,
                    taskpc, res, txAlive, txres, getId, getHandle, getRx, getVia>>

\* GetRecv that hands the boxed value over without checking its type.
GetRecvUnchecked(g) ==
  LET c == getRx[g]
  IN /\ getpc[g] = "recv"
     /\ \/ /\ chan[c] # <<>>
           /\ getRes' = [getRes EXCEPT ![g] = Head(chan[c])]
        \/ /\ chan[c] = <<>>
           /\ ~txAlive[c]
           /\ getRes' = [getRes EXCEPT ![g] = ChannelClosed]
     /\ chan' = [chan EXCEPT ![c] = <<>>]
     /\ rx' = [rx EXCEPT ![c] = "dropped"]
     /\ getpc' = [getpc EXCEPT ![g] = "done"]
     /\ UNCHANGED <<max_concurrent_requests, envVars, loop, semVars, lock, requests, addVars,
                    taskpc, res, txAlive, txres, getId, getHandle, getRx, getVia>>

\* lib.rs 174: .map(|res| *res.downcast::<R>().expect(..)), R the kind of the
\* RequestID<R> the caller passed: an Ok value boxed by a request of another
\* kind makes expect panic; an Err is passed on as it is.
Downcast(g, v) ==
  IF v[1] = "Ok" /\ reqKind[v[2]] # reqKind[getHandle[g]]
    THEN DowncastPanic ELSE v

\* lib.rs 171-174: rx.recv().await yields the buffered value, or None once
\* the buffer is empty and the Sender is dropped; the value is downcast; then
\* rx is dropped, also when the downcast panics.
GetRecv(g) ==
  LET c == getRx[g]
  IN /\ getpc[g] = "recv"
     /\ \/ /\ chan[c] # <<>>
           /\ getRes' = [getRes EXCEPT ![g] = Downcast(g, Head(chan[c]))]
        \/ /\ chan[c] = <<>>
           /\ ~txAlive[c]
           /\ getRes' = [getRes EXCEPT ![g] = ChannelClosed]
     /\ chan' = [chan EXCEPT ![c] = <<>>]
     /\ rx' = [rx EXCEPT ![c] = "dropped"]
     /\ getpc' = [getpc EXCEPT ![g] =
                    IF getRes'[g] = DowncastPanic THEN "panicked" ELSE "done"]
     /\ UNCHANGED <<max_concurrent_requests, envVars, loop, semVars, lock, requests, addVars,
                    taskpc, res, txAlive, txres, getId, getHandle, getRx, getVia>>

\* The caller drops the get_response future while it waits in rx.recv():
\* the Receiver it holds is dropped with it.
GetAbandon(g) ==
  LET c == getRx[g]
  IN /\ getpc[g] = "recv"
     /\ chan' = [chan EXCEPT ![c] = <<>>]
     /\ rx' = [rx EXCEPT ![c] = "dropped"]
     /\ getpc' = [getpc EXCEPT ![g] = "abandoned"]
     /\ UNCHANGED <<max_concurrent_requests, envVars, loop, semVars, lock, requests, addVars,
                    taskpc, res, txAlive, txres, getId, getHandle, getRx,
                    getRes, getVia>>

\* --------------------------------------- failed_request called on its own

\* The state in which nothing of the Orchestrator has run.
Idle ==
  /\ OrchInit
  /\ max_concurrent_requests = MaxConcurrent
  /\ reqKind = [r \in Reqs |-> "Chat"]
  /\ policies = DefaultRetryPolicy

RetryInit ==
  /\ Idle
  /\ \E p \in RetryPolicies : rt = [NoRt EXCEPT !.policy = p, !.start = p]

\* One more `policy.failed_request().await` on the policy under test.
RetryCall ==
  /\ rt.policy.variant # "none"
  /\ rt.ret # "panic"
  /\ rt.calls < rt.policy.max_retries + MaxExtraCalls
  /\ \E o \in failed_request(rt.policy) :
       rt' = [policy |-> o.policy, before |-> rt.policy, start |-> rt.start,
              ret |-> o.ret, slept |-> o.slept, calls |-> rt.calls + 1,
              retried |-> rt.retried + (IF o.ret = "true" THEN 1 ELSE 0)]
  /\ UNCHANGED <<max_concurrent_requests, semVars, lock, requests, addVars,
                 taskpc, res, chan, rx, txAlive, txres, getVars, reqKind,
                 policies, loop, orchs>>

RetryNext == RetryCall

RetrySpec == RetryInit /\ [][RetryNext]_vars

\* ------------------------------------------------ the send loop of a task

\* The ways an attempt fails transiently: the timeout elapses (siso.rs 84-99,
\* embed.rs 49-64) or the client returns an error (siso.rs 102-111, embed.rs
\* 67-76).
Transient == {"timeout", "remote error"}

\* What an attempt that returned in time and without error carries: all the
\* fields, no message content / no embedding data, or (chat only) no choice
\* at all.
Payloads == {"complete", "missing field", "no choices"}

\* The task of r panics inside send: the unwinding drops _permit and tx.
SendPanics(r) ==
  /\ taskpc' = TaskpcAfterRelease(r, "panicked")
  /\ permits' = PermitsAfterRelease
  /\ waiters' = WaitersAfterRelease
  /\ txAlive' = [txAlive EXCEPT ![r] = FALSE]
  /\ res' = res

\* send returns `kind` to the task body.
SendReturns(r, kind) ==
  /\ res' = [res EXCEPT ![r] = Outcome(r, kind)]
  /\ taskpc' = [taskpc EXCEPT ![r] = "sending"]
  /\ UNCHANGED <<semVars, txAlive>>

\* The loop record after a failed attempt whose failed_request did o.
AfterFailure(l, cause, o) ==
  [policy |-> o.policy, attempts |-> l.attempts + 1, calls |-> l.calls + 1,
   retried |-> l.retried + (IF o.ret = "true" THEN 1 ELSE 0),
   cause |-> cause, slept |-> o.slept,
   after |-> IF o.ret = "true" THEN "continue"
             ELSE IF o.ret = "false" THEN "reached max retry" ELSE "panic"]

\* SendAttemptFails on a retry counter shared with the Orchestrator: the task
\* counts its retries in the Orchestrator's Policies instead of its copy.
SendAttemptFailsSharedCounter(r, cause) ==
  /\ taskpc[r] = "running"
  /\ \E o \in failed_request(policies) :
       /\ policies' = o.policy
       /\ loop' = [loop EXCEPT ![r] = AfterFailure(@, cause, o)]
       /\ IF o.ret = "true" THEN UNCHANGED <<taskpc, res, semVars, txAlive>>
          ELSE IF o.ret = "false" THEN SendReturns(r, "Err")
          ELSE SendPanics(r)
  /\ UNCHANGED <<max_concurrent_requests, reqKind, rt, orchs, lock, requests,
                 addVars, chan, rx, txres, getVars>>

\* One pass of the loop whose attempt fails transiently (siso.rs 80-111,
\* embed.rs 43-76): failed_request on the task's own retry_policy decides
\* between `continue` and returning the error with context "reached max
\* retry"; a panic inside failed_request unwinds the task.
SendAttemptFails(r, cause) ==
  /\ taskpc[r] = "running"
  /\ \E o \in failed_request(loop[r].policy) :
       /\ loop' = [loop EXCEPT ![r] = AfterFailure(@, cause, o)]
       /\ IF o.ret = "true" THEN UNCHANGED <<taskpc, res, semVars, txAlive>>
          ELSE IF o.ret = "false" THEN SendReturns(r, "Err")
          ELSE SendPanics(r)
  /\ UNCHANGED <<max_concurrent_requests, envVars, lock, requests, addVars,
                 chan, rx, txres, getVars>>

\* SendAttemptReturns that routes a missing field through failed_request, as
\* one more transient failure.
SendAttemptReturnsRetriesMissing(r, payload) ==
  /\ taskpc[r] = "running"
  /\ payload = "no choices" => reqKind[r] = "Chat"
  /\ IF payload = "missing field"
       THEN \E o \in failed_request(loop[r].policy) :
              /\ loop' = [loop EXCEPT ![r] =
                            [AfterFailure(@, "none", o) EXCEPT !.after = payload]]
              /\ IF o.ret = "true" THEN UNCHANGED <<taskpc, res, semVars, txAlive>>
                 ELSE IF o.ret = "false" THEN SendReturns(r, "Err")
                 ELSE SendPanics(r)
       ELSE /\ loop' = [loop EXCEPT ![r] =
                          [@ EXCEPT !.attempts = @ + 1, !.cause = "none",
                                    !.slept = <<>>, !.after = payload]]
            /\ IF payload = "complete" THEN SendReturns(r, "Ok")
               ELSE SendPanics(r)
  /\ UNCHANGED <<max_concurrent_requests, envVars, lock, requests, addVars,
                 chan, rx, txres, getVars>>

\* One pass of the loop whose attempt returns in time and without error
\* (siso.rs 113-123, embed.rs 78-90): Ok for a complete payload, the error of
\* the `?` for a missing field, a panic for choices[0] of no choices; the
\* retry_policy is not touched.
SendAttemptReturns(r, payload) ==
  /\ taskpc[r] = "running"
  /\ payload = "no choices" => reqKind[r] = "Chat"
  /\ loop' = [loop EXCEPT ![r] =
                [@ EXCEPT !.attempts = @ + 1, !.cause = "none",
                          !.slept = <<>>, !.after = payload]]
  /\ IF payload = "complete" THEN SendReturns(r, "Ok")
     ELSE IF payload = "missing field" THEN SendReturns(r, "Err")
     ELSE SendPanics(r)
  /\ UNCHANGED <<max_concurrent_requests, envVars, lock, requests, addVars,
                 chan, rx, txres, getVars>>

\* The policies the constructors immediate, constant_delay and
\* exponential_backoff return (policies.rs 102-132): current_retries = 0.
ConstructedPolicies == {p \in RetryPolicies : p.current_retries = 0}

\* One request of either kind, submitted to an Orchestrator built with any
\* constructed retry policy, and one get_response for it.
SendInit ==
  /\ OrchInit
  /\ max_concurrent_requests = MaxConcurrent
  /\ reqKind \in {k \in [Reqs -> Kinds] : \A r \in Reqs \ {1} : k[r] = "Chat"}
  /\ policies \in ConstructedPolicies
  /\ rt = NoRt

SendNext ==
  \/ \E id \in Ids : AddLock(1, id)
  \/ AddInsert(1)
  \/ AddSpawn(1)
  \/ TaskAcquire(1)
  \/ \E cause \in Transient : SendAttemptFails(1, cause)
  \/ \E payload \in Payloads : SendAttemptReturns(1, payload)
  \/ TaskTxSend(1)
  \/ TaskExit(1)
  \/ GetLock(1, 1)
  \/ GetRemove(1)
  \/ GetRecv(1)

SendSpec == SendInit /\ [][SendNext]_vars

\* ------------------------------------------- several tasks, each retrying

\* Every request of the run is submitted to one Orchestrator whose limit lets
\* all their tasks run at once, each task retrying on its own.
IsoInit ==
  /\ OrchNew(NumRequests)
  /\ reqKind = [r \in Reqs |-> "Chat"]
  /\ policies \in {p \in ConstructedPolicies :
                     /\ p.max_retries = MaxIsoRetries
                     /\ p.variant = "ExponentialBackoff" => p.max_delay = DefaultMaxDelay}
  /\ rt = NoRt

IsoNext ==
  \/ \E r \in Reqs, id \in Ids : AddLock(r, id)
  \/ \E r \in Reqs : AddInsert(r)
  \/ \E r \in Reqs : AddSpawn(r)
  \/ \E r \in Reqs : TaskAcquire(r)
  \/ \E r \in Reqs, cause \in Transient : SendAttemptFails(r, cause)
  \/ \E r \in Reqs, payload \in Payloads : SendAttemptReturns(r, payload)
  \/ \E r \in Reqs : TaskTxSend(r)
  \/ \E r \in Reqs : TaskExit(r)

IsoSpec == IsoInit /\ [][IsoNext]_vars

Next ==
  \/ \E r \in Reqs, id \in Ids : AddLock(r, id)
  \/ \E r \in Reqs : AddInsert(r)
  \/ \E r \in Reqs : AddSpawn(r)
  \/ \E r \in Reqs : TaskAcquire(r)
  \/ \E r \in Reqs, kind \in SendKinds : TaskSendReturns(r, kind)
  \/ \E r \in Reqs : TaskSendPanics(r)
  \/ \E r \in Reqs : TaskTxSend(r)
  \/ \E r \in Reqs : TaskExit(r)
  \/ \E g \in Gets, h \in Reqs : GetLock(g, h)
  \/ \E g \in Gets : GetRemove(g)
  \/ \E g \in Gets : GetRecv(g)
  \/ \E g \in Gets : GetAbandon(g)

\* An application that submits requests of both kinds; by symmetry the first
\* is a chat request.
TypeInit ==
  /\ OrchNew(MaxConcurrent)
  /\ reqKind \in {k \in [Reqs -> Kinds] : k[1] = "Chat"}
  /\ policies = DefaultRetryPolicy
  /\ rt = NoRt

TypeSpec == TypeInit /\ [][Next]_vars

\* The fan-out run of examples/basic/main.rs with a request whose send always
\* succeeds: a limit of at least 1, every add_request made before the first
\* get_response, then one get_response per identifier, none abandoned.
FanInit == Init /\ max_concurrent_requests >= 1

\* examples/basic/main.rs 34-44: the get_response calls start after the loop
\* of add_request calls, one per identifier.
FanGetLock(g, h) ==
  /\ \A r \in Reqs : addpc[r] = "returned"
  /\ \A k \in Gets : getpc[k] # "idle" => getId[k] # reqId[h]
  /\ GetLock(g, h)

FanNext ==
  \/ \E r \in Reqs, id \in Ids : AddLock(r, id)
  \/ \E r \in Reqs : AddInsert(r)
  \/ \E r \in Reqs : AddSpawn(r)
  \/ \E r \in Reqs : TaskAcquire(r)
  \/ \E r \in Reqs : TaskSendReturns(r, "Ok")
  \/ \E r \in Reqs : TaskTxSend(r)
  \/ \E r \in Reqs : TaskExit(r)
  \/ \E g \in Gets, h \in Reqs : FanGetLock(g, h)
  \/ \E g \in Gets : GetRemove(g)
  \/ \E g \in Gets : GetRecv(g)

\* The tokio runtime keeps polling tasks that can make progress and main
\* keeps making its calls: the run does not stop while a step is possible.
FanOutSpec == FanInit /\ [][FanNext]_vars /\ WF_vars(FanNext)

Spec == Init /\ [][Next]_vars

\* A clone whose fields are fresh allocations instead of the same Arcs.
CloneOrchDeep(o, from) ==
  /\ orchs[from] # "none"
  /\ orchs[o] = "none"
  /\ \A k \in Orchs : k < o => orchs[k] # "none"
  /\ orchs' = [orchs EXCEPT ![o] = "copy"]
  /\ UNCHANGED <<max_concurrent_requests, reqKind, policies, rt, loop, semVars,
                 lock, requests, addVars, taskpc, res, chan, rx, txAlive, txres,
                 getVars>>

\* lib.rs 93: #[derive(Clone)] on Orchestrator: handle o becomes a clone of
\* handle `from`; Arc::clone of requests and semaphore gives pointers to the
\* same registry and the same gate.
CloneOrch(o, from) ==
  /\ orchs[from] # "none"
  /\ orchs[o] = "none"
  /\ \A k \in Orchs : k < o => orchs[k] # "none"
  /\ orchs' = [orchs EXCEPT ![o] = orchs[from]]
  /\ UNCHANGED <<max_concurrent_requests, reqKind, policies, rt, loop, semVars,
                 lock, requests, addVars, taskpc, res, chan, rx, txAlive, txres,
                 getVars>>

\* An application that clones its Orchestrator and makes its calls through
\* any of the handles, as examples/basic/main.rs does for get_response; the
\* requests succeed.
CloneInit ==
  /\ OrchNew(MaxConcurrent)
  /\ reqKind = [r \in Reqs |-> "Chat"]
  /\ policies = DefaultRetryPolicy
  /\ rt = NoRt

CloneNext ==
  \/ \E o, from \in Orchs : CloneOrch(o, from)
  \/ \E r \in Reqs, id \in Ids : AddLock(r, id)
  \/ \E r \in Reqs : AddInsert(r)
  \/ \E r \in Reqs : AddSpawn(r)
  \/ \E r \in Reqs : TaskAcquire(r)
  \/ \E r \in Reqs : TaskSendReturns(r, "Ok")
  \/ \E r \in Reqs : TaskTxSend(r)
  \/ \E r \in Reqs : TaskExit(r)
  \/ \E g \in Gets, h \in Reqs : GetLock(g, h)
  \/ \E g \in Gets : GetRemove(g)
  \/ \E g \in Gets : GetRecv(g)

CloneSpec == CloneInit /\ [][CloneNext]_vars

\* The steps of r's task (lib.rs 134-145).
TaskStep(r) ==
  \/ TaskAcquire(r)
  \/ \E kind \in SendKinds : TaskSendReturns(r, kind)
  \/ TaskSendPanics(r)
  \/ TaskTxSend(r)
  \/ TaskExit(r)

\* The tokio runtime keeps polling every spawned task that can make progress,
\* and every request.send comes to an end; the application may stop calling
\* at any point.
LiveSpec == Init /\ [][Next]_vars /\ \A r \in Reqs : WF_vars(TaskStep(r))

\* ------------------------------------------------------------- the claims

\* The tasks that hold a semaphore permit: from acquire() returning to the
\* end of the task body, where _permit is dropped.
Running == {r \in Reqs : taskpc[r] \in {"running", "sending", "sent"}}

\* The results of get_response that are a value received from the channel.
IsValue(v) == v[1] \in SendKinds

\* C1 (admission bound): in every reachable state the number of tasks between
\* acquiring their permit and finishing is at most the concurrency limit the
\* Orchestrator was built with.
AdmissionBound == Cardinality(Running) <= max_concurrent_requests

\* C1 witness: the gate is full (all C >= 1 permits held) and a further
\* submitted task is queued behind it.
AdmissionBoundWitness ==
  /\ max_concurrent_requests >= 1
  /\ Cardinality(Running) = max_concurrent_requests
  /\ waiters # <<>>

\* C2 (exactly-once retrieval): the Receiver of a request is obtained by at
\* most one get_response call, it is out of the registry from the moment a
\* call holds it (so while that call waits), and a call that did not obtain a
\* Receiver has failed with the not-found error: it neither waits nor returns
\* a value.
ExactlyOnceRetrieval ==
  /\ \A g \in Gets, k \in Gets :
       (g # k /\ getRx[g] # NoReq) => getRx[g] # getRx[k]
  /\ \A g \in Gets, i \in Ids :
       getRx[g] # NoReq => requests[i] # getRx[g]
  /\ \A g \in Gets :
       (getpc[g] \in {"recv", "done", "abandoned"} /\ getRx[g] = NoReq)
         => (getpc[g] = "done" /\ getRes[g] = NotFound)

\* C2 witness: two get_response calls on one identifier, the first still
\* waiting on the channel, the second already failed with not-found.
ExactlyOnceRetrievalWitness ==
  \E g \in Gets, k \in Gets :
    /\ g # k
    /\ getId[g] = getId[k]
    /\ getpc[g] = "recv"
    /\ getpc[k] = "done"
    /\ getRes[k] = NotFound

\* C3 (register before spawn): once add_request has spawned its task or has
\* returned, its Receiver has been put into the registry; and a get_response
\* fails with not-found only when another get_response on the same identifier
\* has taken an entry out of the registry.
RegisterBeforeSpawn ==
  /\ \A r \in Reqs :
       (taskpc[r] # "none" \/ addpc[r] = "returned") => rx[r] \notin {"none", "local"}
  /\ \A g \in Gets :
       getRes[g] = NotFound =>
         \E k \in Gets : k # g /\ getId[k] = getId[g] /\ getRx[k] # NoReq

\* C3 witness: a get_response issued right after add_request returned holds
\* the Receiver of its own request while the spawned task has not even been
\* polled.
RegisterBeforeSpawnWitness ==
  \E g \in Gets :
    /\ getRx[g] # NoReq
    /\ getRx[g] = getHandle[g]
    /\ taskpc[getRx[g]] = "spawned"

\* C4 (result propagation): a value returned by get_response is exactly the
\* outcome that the task of the add_request call which minted the RequestID
\* produced, never the outcome of another request.
ResultPropagation ==
  \A g \in Gets : IsValue(getRes[g]) => getRes[g] = res[getHandle[g]]

\* C5 (identifier uniqueness): no add_request inserts under an identifier
\* that still has a registry entry.
IdentifierUniqueness ==
  [][\A r \in Reqs :
       (addpc[r] = "insert" /\ addpc'[r] = "spawn") => requests[reqId[r]] = NoReq]_vars

\* C6 (fan-out completion): in the fan-out run under fair scheduling,
\* eventually and for good every add_request has returned, every task has
\* finished, no get_response is waiting, every get_response made has
\* returned a success, and every identifier has had its get_response unless
\* the run's NumGets calls are used up.
FanOutCompletion ==
  <>[](/\ \A r \in Reqs : addpc[r] = "returned" /\ taskpc[r] = "done"
       /\ \A g \in Gets : getpc[g] \in {"idle", "done"}
       /\ \A g \in Gets : getpc[g] = "done" => getRes[g][1] = "Ok"
       /\ \A r \in Reqs :
            \/ \E g \in Gets : getId[g] = reqId[r] /\ getpc[g] = "done"
            \/ \A g \in Gets : getpc[g] = "done")

\* C6 witness: more requests than permits, one get_response has returned a
\* success and the task of another request has finished before its
\* get_response was called.
FanOutCompletionWitness ==
  /\ max_concurrent_requests < NumRequests
  /\ \E g \in Gets : getpc[g] = "done" /\ getRes[g][1] = "Ok"
  /\ \E r \in Reqs : taskpc[r] = "done" /\ rx[r] = "registry"

\* C7 as the spec states it (best-effort delivery): when a task has sent its
\* outcome and no get_response has taken the Receiver out of the registry,
\* the outcome is gone.
BestEffortDrop ==
  \A r \in Reqs :
    (taskpc[r] \in {"sent", "done"} /\ rx[r] = "registry") => chan[r] = <<>>

\* C7 amended (buffered delivery): an outcome sent while the Receiver is
\* still in the registry stays in the channel's slot; a get_response that
\* completes on a channel whose send succeeded returns that outcome; and the
\* send fails, dropping the outcome, only when the Receiver has been dropped.
BufferedDelivery ==
  /\ \A r \in Reqs :
       (taskpc[r] \in {"sent", "done"} /\ rx[r] = "registry") => chan[r] = <<res[r]>>
  /\ \A g \in Gets :
       (getpc[g] = "done" /\ getRx[g] # NoReq /\ txres[getRx[g]] = "Ok")
         => getRes[g] = res[getRx[g]]
  /\ \A r \in Reqs : txres[r] = "Err" => (rx[r] = "dropped" /\ chan[r] = <<>>)

\* C7 witness: a task has sent and finished while nobody was waiting, and
\* its outcome sits in the channel whose Receiver is still registered.
BufferedDeliveryWitness ==
  \E r \in Reqs :
    /\ taskpc[r] = "done"
    /\ rx[r] = "registry"
    /\ chan[r] = <<res[r]>>
    /\ \A g \in Gets : getId[g] # reqId[r]

\* C8 (submission never waits for the gate): whatever the state of the
\* semaphore, an add_request call that holds the registry lock can insert,
\* one that has inserted can spawn and return, and one that has not yet got
\* the lock can take it as soon as it is free, the holder of the lock being
\* always able to release it.
SubmitNeverWaitsForGate ==
  /\ \A r \in Reqs :
       /\ addpc[r] = "insert" => ENABLED AddInsert(r)
       /\ addpc[r] = "spawn" => ENABLED AddSpawn(r)
       /\ (addpc[r] = "idle" /\ lock = Unlocked
             /\ \A q \in Reqs : q < r => addpc[q] # "idle")
            => ENABLED (\E id \in Ids : AddLock(r, id))
  /\ \A q \in Reqs : lock = <<"add", q>> => ENABLED AddInsert(q)
  /\ \A g \in Gets : lock = <<"get", g>> => ENABLED GetRemove(g)

\* C8 witness: add_request has returned although all C >= 1 permits are held
\* by running tasks and an earlier task is already queued for one.
SubmitNeverWaitsForGateWitness ==
  \E r \in Reqs :
    /\ addpc[r] = "returned"
    /\ taskpc[r] = "spawned"
    /\ max_concurrent_requests >= 1
    /\ Cardinality(Running) = max_concurrent_requests
    /\ permits = 0
    /\ waiters # <<>>

\* C9 (permit conservation): the available permits plus the permits held by
\* tasks are always the concurrency limit, however tasks finish.
PermitConservation ==
  /\ permits >= 0
  /\ permits + Cardinality(Running) = max_concurrent_requests

\* C9 witness: one task has panicked, another has finished with an error,
\* no task holds a permit and the gate offers all C >= 1 permits again.
PermitConservationWitness ==
  /\ max_concurrent_requests >= 1
  /\ \E r \in Reqs : taskpc[r] = "panicked"
  /\ \E r \in Reqs : taskpc[r] = "done" /\ res[r][1] = "Err"
  /\ Running = {}
  /\ permits = max_concurrent_requests

\* C10 (channel-closed failure): a get_response that holds the Receiver of a
\* task that panicked inside send is never stuck: while it waits it can
\* return, and what it returns is the channel-closed error.
ChannelClosedFailure ==
  \A g \in Gets :
    (getRx[g] # NoReq /\ taskpc[getRx[g]] = "panicked") =>
      /\ getpc[g] = "recv" => ENABLED GetRecv(g)
      /\ getpc[g] = "done" => getRes[g] = ChannelClosed

\* C10 witness: a get_response has returned the channel-closed error for a
\* task that panicked.
ChannelClosedFailureWitness ==
  \E g \in Gets :
    /\ getpc[g] = "done"
    /\ getRes[g] = ChannelClosed
    /\ taskpc[getRx[g]] = "panicked"

\* min(initial * 2^n, cap), the delay the spec gives for retry n.
RECURSIVE CappedDoubling(_, _, _)
CappedDoubling(initial, n, cap) ==
  IF initial >= cap THEN cap
  ELSE IF n = 0 THEN initial
  ELSE CappedDoubling(2 * initial, n - 1, cap)

\* C11 (retry gate): a failed_request call made with current_retries <
\* max_retries returns true and adds exactly 1 to current_retries; one made
\* with current_retries >= max_retries returns false, changes nothing and
\* sleeps nothing; so from current_retries = 0 the counter stays within
\* max_retries and exactly max_retries calls have returned true once a call
\* returns false.
RetryGate ==
  rt.calls > 0 =>
    /\ rt.before.current_retries < rt.before.max_retries
         => (rt.ret = "true" /\ rt.policy = Incremented(rt.before))
    /\ rt.before.current_retries >= rt.before.max_retries
         => (rt.ret = "false" /\ rt.policy = rt.before /\ rt.slept = <<>>)
    /\ rt.start.current_retries = 0
         => /\ rt.policy.current_retries <= rt.policy.max_retries
            /\ rt.ret = "false" => rt.retried = rt.policy.max_retries

\* C12 (backoff delay): a retrying failed_request call on ExponentialBackoff
\* sleeps min(initial_delay * 2^n, max_delay), n the counter before the call.
BackoffDelay ==
  (/\ rt.calls > 0
   /\ rt.before.variant = "ExponentialBackoff"
   /\ rt.before.current_retries < rt.before.max_retries)
    => rt.slept = <<CappedDoubling(rt.before.initial_delay,
                                   rt.before.current_retries,
                                   rt.before.max_delay)>>

\* The attempts of r's send loop that failed transiently: all but a last one
\* that returned.
FailedAttempts(r) ==
  loop[r].attempts - (IF loop[r].after \in Payloads THEN 1 ELSE 0)

\* r's send is over: it returned to the task body or unwound it.
SendOver(r) == loop[r].attempts > 0 /\ taskpc[r] # "running"

\* C13 (retry exhaustion): a send whose every attempt fails transiently,
\* started with max_retries = m and current_retries = 0, never makes more
\* than m + 1 attempts, and ends after exactly m + 1 attempts by returning the
\* error of the last attempt's cause with context "reached max retry".
RetryExhaustion ==
  \A r \in Reqs :
    (loop[r].attempts > 0 /\ FailedAttempts(r) = loop[r].attempts) =>
      /\ loop[r].attempts <= loop[r].policy.max_retries + 1
      /\ SendOver(r) =>
           /\ loop[r].attempts = loop[r].policy.max_retries + 1
           /\ loop[r].after = "reached max retry"
           /\ loop[r].cause \in Transient
           /\ res[r] = Outcome(r, "Err")

\* C14 (timeouts share the retry budget): every failed attempt, timeout or
\* remote error, is one failed_request call; a send makes at most
\* max_retries + 1 attempts; and each failed attempt consumes one retry for
\* as long as one is left, so current_retries is the number of failed
\* attempts up to max_retries.
TimeoutsShareBudget ==
  \A r \in Reqs :
    loop[r].attempts > 0 =>
      /\ loop[r].calls = FailedAttempts(r)
      /\ loop[r].attempts <= loop[r].policy.max_retries + 1
      /\ loop[r].policy.current_retries =
           (IF FailedAttempts(r) < loop[r].policy.max_retries
              THEN FailedAttempts(r) ELSE loop[r].policy.max_retries)

\* C15 (permanent errors are not retried): the attempt that finds a field
\* missing makes send return Err at once, without a failed_request call and
\* with the retry policy as it was, and no attempt follows it.
PermanentNotRetried ==
  [][\A r \in Reqs :
       /\ (loop'[r].after = "missing field" /\ loop'[r] # loop[r]) =>
            /\ loop[r].after # "missing field"
            /\ loop'[r].attempts = loop[r].attempts + 1
            /\ loop'[r].policy = loop[r].policy
            /\ loop'[r].calls = loop[r].calls
            /\ taskpc'[r] = "sending"
            /\ res'[r] = Outcome(r, "Err")
       /\ loop[r].after = "missing field" =>
            (loop'[r] = loop[r] /\ taskpc'[r] # "running")]_vars

\* A send that was retried, then found a field missing while retries were
\* left, and whose error reached get_response.
PermanentNotRetriedWitness ==
  \E r \in Reqs, g \in Gets :
    /\ loop[r].after = "missing field"
    /\ loop[r].retried >= 1
    /\ loop[r].policy.current_retries < loop[r].policy.max_retries
    /\ loop[r].calls = loop[r].retried
    /\ getpc[g] = "done"
    /\ getRes[g] = Outcome(r, "Err")

\* C16 (per-request isolation): the Orchestrator's Policies never change; a
\* task starts with a copy of them, so with the retry counter the
\* Orchestrator was constructed with; and a step that changes one task's
\* retry policy changes no other task's.
PerRequestIsolation ==
  [][/\ policies' = policies
     /\ \A r \in Reqs :
          /\ (loop[r].policy = NoPolicy /\ loop'[r].policy # NoPolicy) =>
               (loop'[r].policy = policies /\ loop'[r].retried = 0)
          /\ (loop[r].policy # NoPolicy /\ loop'[r].policy # loop[r].policy) =>
               /\ loop'[r].policy = Incremented(loop[r].policy)
               /\ \A q \in Reqs \ {r} : loop'[q] = loop[q]
          /\ loop'[r].policy.current_retries
               = policies.current_retries + loop'[r].retried]_vars

\* Two tasks run at once, one has used up its retries and the other starts
\* with the Orchestrator's own counter, after a third gave up.
PerRequestIsolationWitness ==
  \E r, q, t \in Reqs :
    /\ taskpc[r] = "running" /\ taskpc[q] = "running"
    /\ loop[r].policy.current_retries = MaxIsoRetries
    /\ loop[q].attempts = 0 /\ loop[q].policy = policies
    /\ loop[t].after = "reached max retry"
    /\ policies.current_retries = 0

\* C17 (type safety at retrieval): a get_response made with a RequestID<R>
\* returns an Ok value only if a request of kind R produced it; when the
\* receiver it took belongs to a request of another kind, it ends without a
\* value: with the downcast panic, that request's error, or the closed
\* channel's error.
TypeSafety ==
  \A g \in Gets :
    getpc[g] \in {"done", "panicked"} =>
      /\ getRes[g][1] = "Ok" => reqKind[getRes[g][2]] = reqKind[getHandle[g]]
      /\ (getRx[g] # NoReq /\ reqKind[getRx[g]] # reqKind[getHandle[g]]) =>
           /\ getRes[g] \in {DowncastPanic, Outcome(getRx[g], "Err"), ChannelClosed}
           /\ res[getRx[g]] = Outcome(getRx[g], "Ok") /\ getRes[g] # ChannelClosed
                => (getRes[g] = DowncastPanic /\ getpc[g] = "panicked")
      /\ getpc[g] = "panicked" <=> getRes[g] = DowncastPanic

\* A get_response made with a chat RequestID took the receiver of an
\* embedding request that had succeeded, and panicked in the downcast.
TypeSafetyWitness ==
  \E g \in Gets :
    /\ getpc[g] = "panicked"
    /\ reqKind[getHandle[g]] = "Chat"
    /\ reqKind[getRx[g]] = "Embed"
    /\ res[getRx[g]] = Outcome(getRx[g], "Ok")

\* The tasks that wait for a permit, and those that got one.
AwaitsPermit(r) == taskpc[r] \in {"spawned", "waiting"}
Admitted(r) == taskpc[r] \in {"running", "sending", "sent", "done", "panicked"}

\* C18 (eventual admission), as stated: for any limit, every task that waits
\* for a permit is eventually admitted.
EventualAdmission ==
  \A r \in Reqs : AwaitsPermit(r) ~> Admitted(r)

\* C18 (eventual admission), amended: for any limit of at least 1, every
\* task that waits for a permit is eventually admitted.
EventualAdmissionPositiveLimit ==
  \A r \in Reqs :
    (max_concurrent_requests >= 1 /\ AwaitsPermit(r)) ~> Admitted(r)

\* Under a limit of 1 with every request submitted, one task is through, the
\* next holds the permit, and the last one is still queued behind it.
EventualAdmissionWitness ==
  \E a, b, c \in Reqs :
    /\ max_concurrent_requests = 1
    /\ \A r \in Reqs : addpc[r] = "returned"
    /\ taskpc[a] = "done"
    /\ taskpc[b] = "running"
    /\ waiters = <<c>>

\* C19 (clones share one gate and one registry): every handle points to the
\* registry and gate of the first; the tasks submitted through all handles
\* together never run more than the limit at once; and a get_response through
\* any handle finds the receiver of an identifier returned through any
\* handle, unless an earlier get_response through some handle consumed it.
ClonesShare ==
  /\ \A o \in Orchs : orchs[o] \in {"none", "root"}
  /\ Cardinality(Running) <= max_concurrent_requests
  /\ \A g \in Gets :
       (getpc[g] = "done" /\ getRes[g] = NotFound) =>
         \E k \in Gets \ {g} : getId[k] = getId[g] /\ getRx[k] # NoReq
  /\ \A g \in Gets :
       (getpc[g] = "done" /\ getRx[g] # NoReq) =>
         /\ getRes[g] = Outcome(getRx[g], "Ok")
         /\ requests[getId[g]] # getRx[g]

\* A request submitted through one handle and one through another wait for
\* the same permit, the result of the first was retrieved through a handle
\* other than the one it was submitted through, and a second retrieval of it
\* through the submitting handle found nothing.
ClonesShareWitness ==
  \E r, q \in Reqs, g, k \in Gets :
    /\ addVia[r] # addVia[q]
    /\ taskpc[r] = "done" /\ taskpc[q] \in {"running", "waiting"}
    /\ getHandle[g] = r /\ getVia[g] # addVia[r]
    /\ getpc[g] = "done" /\ getRes[g] = Outcome(r, "Ok")
    /\ getHandle[k] = r /\ getVia[k] = addVia[r]
    /\ getpc[k] = "done" /\ getRes[k] = NotFound

\* C20 (release-then-send ordering), as stated: the permit is released when
\* request.send has completed, so only the tasks inside request.send hold a
\* permit, and none that is sending or has sent its outcome.
ReleaseThenSend ==
  permits + Cardinality({r \in Reqs : taskpc[r] = "running"})
    = max_concurrent_requests

\* C20, amended: the task keeps its permit when request.send returns and
\* while it sends the outcome on the channel, and releases it after the send
\* attempt, at the end of the task body.
SendThenRelease ==
  [][\A r \in Reqs :
       /\ (taskpc[r] = "running" /\ taskpc'[r] = "sending") =>
            (permits' = permits /\ waiters' = waiters)
       /\ (taskpc[r] = "sending" /\ taskpc'[r] # "sending") =>
            (taskpc'[r] = "sent" /\ permits' = permits /\ waiters' = waiters)
       /\ (taskpc[r] = "sent" /\ taskpc'[r] # "sent") =>
            /\ taskpc'[r] = "done"
            /\ txres[r] \in {"Ok", "Err"}
            /\ IF waiters = <<>>
                 THEN permits' = permits + 1 /\ waiters' = waiters
                 ELSE /\ permits' = permits
                      /\ waiters' = Tail(waiters)
                      /\ taskpc'[Head(waiters)] = "running"]_vars

\* get_response already returned the outcome of a task that still holds the
\* only permit, with another task queued for it.
SendThenReleaseWitness ==
  \E r \in Reqs, g \in Gets :
    /\ taskpc[r] = "sent" /\ txres[r] = "Ok"
    /\ getpc[g] = "done" /\ getRx[g] = r /\ getRes[g] = res[r]
    /\ permits = 0 /\ max_concurrent_requests = 1
    /\ waiters # <<>>

\* C21 (no cancellation): a task that holds a permit always comes to its end
\* and gives the permit back, whether or not any get_response is ever made
\* for it and also when the get_response that took its Receiver was
\* abandoned: the channel send never waits for a consumer.
NoCancellation ==
  \A r \in Reqs : (r \in Running) ~> (taskpc[r] \in {"done", "panicked"})

\* Every task is over and every permit is back, although the Receiver of one
\* was dropped by an abandoned get_response before the task sent, and the
\* Receiver of another still lies in the registry, never asked for.
NoCancellationWitness ==
  \E r, q \in Reqs, g \in Gets :
    /\ max_concurrent_requests >= 1 /\ permits = max_concurrent_requests
    /\ \A t \in Reqs : taskpc[t] \in {"done", "panicked"}
    /\ getpc[g] = "abandoned" /\ getRx[g] = r
    /\ taskpc[r] = "done" /\ txres[r] = "Err"
    /\ taskpc[q] = "done" /\ txres[q] = "Ok" /\ rx[q] = "registry"
    /\ \A k \in Gets : getRx[k] # q

\* C22 (the registry lock is held only for the insert or the remove): the
\* lock is held only by an add_request at its insert or a get_response at its
\* remove, never by a get_response waiting on its channel; whoever holds it
\* can finish its registry step at once, whatever the tasks do; and while the
\* lock is free the next add_request and the next get_response can take it,
\* also when another get_response waits for a task that has not finished.
LockOnlyForRegistryStep ==
  /\ \/ lock = Unlocked
     \/ \E r \in Reqs : lock = <<"add", r>> /\ addpc[r] = "insert"
     \/ \E g \in Gets : lock = <<"get", g>> /\ getpc[g] = "remove"
  /\ \A r \in Reqs : lock = <<"add", r>> => ENABLED AddInsert(r)
  /\ \A g \in Gets : lock = <<"get", g>> => ENABLED GetRemove(g)
  /\ lock = Unlocked =>
       /\ (\E r \in Reqs : addpc[r] = "idle")
            => ENABLED (\E r \in Reqs, id \in Ids : AddLock(r, id))
       /\ (\E g \in Gets, h \in Reqs : getpc[g] = "idle" /\ addpc[h] = "returned")
            => ENABLED (\E g \in Gets, h \in Reqs : GetLock(g, h))

\* One get_response waits on the empty channel of a task that has not got
\* its permit yet, while another get_response, for another identifier, holds
\* the lock for its remove.
LockOnlyForRegistryStepWitness ==
  \E g, k \in Gets :
    /\ getpc[g] = "recv" /\ chan[getRx[g]] = <<>>
    /\ taskpc[getRx[g]] \in {"spawned", "waiting", "running"}
    /\ lock = <<"get", k>> /\ getpc[k] = "remove"
    /\ getId[k] # getId[g]
    /\ requests[getId[k]] # NoReq
====
